---- MODULE Spec2Model ----
(***************************************************************************)
(* Global configuration of predictably (src/predictably/_config.py and     *)
(* src/predictably/_config_param_setting.py): the registry of the four     *)
(* configuration parameters, the process-wide mapping global_config, the   *)
(* per-thread mapping _THREAD_LOCAL_DATA.global_config, and the calls      *)
(* get_config, set_config, reset_config and config_context made by         *)
(* several threads.                                                        *)
(*                                                                         *)
(* Python values are records [ty, v]: ty is the runtime type that          *)
(* isinstance() sees, v the printed value, so that the bool False and the  *)
(* str "False" are different values.                                       *)
(*                                                                         *)
(* Every call is one action.  A call touches global_config at most twice:  *)
(* the dict.copy() of a thread's first access and the dict.update() at the *)
(* end of set_config; each is a single dict operation, and a thread's      *)
(* first access is also available on its own as get_config.                *)
(***************************************************************************)
EXTENDS Integers, Sequences, FiniteSets, TLC

\* ---------------------------------------------------------------- bounds
NumThreads == 2
MaxDepth == 2
MaxCalls == 2
MaxSeqCalls == 3
NumObjects == 2    \* BaseObject instances
MaxOps == 3        \* state-changing calls on instances in one run
MaxNesting == 2    \* components within components
MaxWorkerCalls == 4    \* calls of the worker threads in one run

Threads == 1..NumThreads

\* ---------------------------------------------------------- Python values
Str(x) == [ty |-> "str", v |-> x]
Bool(x) == [ty |-> "bool", v |-> x]
None == [ty |-> "NoneType", v |-> "None"]
True == Bool("True")
False == Bool("False")

\* ------------------------------------------------------------- registry
df_backend_values == <<Str("polars"), Str("pandas"), Str("fugue"), Str("input")>>
math_backend_values == <<Str("predictably"), Str("numba"), Str("numpy")>>

_CONFIG_REGISTRY ==
  [dataframe_backend |->
     [name |-> "dataframe_backend", expected_type |-> "str",
      allowed_values |-> df_backend_values, default_value |-> Str("polars")],
   math_backend |->
     [name |-> "math_backend", expected_type |-> "str",
      allowed_values |-> math_backend_values, default_value |-> Str("predictably")],
   print_changed_only |->
     [name |-> "print_changed_only", expected_type |-> "bool",
      allowed_values |-> <<True, False>>, default_value |-> True],
   display |->
     [name |-> "display", expected_type |-> "str",
      allowed_values |-> <<Str("text"), Str("diagram")>>, default_value |-> Str("text")]]

Keys == DOMAIN _CONFIG_REGISTRY

_GLOBAL_CONFIG_DEFAULT == [k \in Keys |-> _CONFIG_REGISTRY[k].default_value]

\* ------------------------------------------------- GlobalConfigParamSetting
\* get_allowed_values: the allowed values as a tuple (every registered
\* parameter has an iterable, non-None allowed_values).
get_allowed_values(self) == self.allowed_values

\* isinstance(value, expected_type) and value in allowed_values; `in` is
\* Python equality, which on str and bool values is equality of type and value.
is_valid_param_value(self, value) ==
  IF value.ty # self.expected_type
       \/ ~(\E i \in DOMAIN get_allowed_values(self) : get_allowed_values(self)[i] = value)
  THEN FALSE
  ELSE TRUE

\* (FallBackToRegistered: an invalid value falls back to the registered
\* default whatever default_value was passed.)
FallBackToRegistered(self, value, default_value) ==
  IF is_valid_param_value(self, value) THEN value ELSE self.default_value

get_valid_param_or_default(self, value, default_value) ==
  IF is_valid_param_value(self, value)
  THEN value
  ELSE IF default_value # None THEN default_value ELSE self.default_value

\* the number of warnings.warn calls of one get_valid_param_or_default call
warn_count(self, value) == IF is_valid_param_value(self, value) THEN 0 ELSE 1

\* ------------------------------------------------------------ call inputs
\* Candidate keyword values: None (the default of every keyword), valid
\* values, and invalid ones: a str for the bool parameter, and a str that
\* is not among the allowed values ("numba" as dataframe_backend).
Candidates ==
  [dataframe_backend |-> {None, Str("pandas"), Str("numba")},
   math_backend |-> {None, Str("numba")},
   print_changed_only |-> {None, True, False, Str("False")},
   display |-> {None, Str("diagram")}]

Supplied(kwargs) == {k \in Keys : kwargs[k] # None}

\* calls that supply at most one keyword
NoKwargs == [k \in Keys |-> None]

SingleKwargs ==
  UNION {{[NoKwargs EXCEPT ![k] = v] : v \in Candidates[k]} : k \in Keys}

\* calls that supply several keywords: all four valid, and a valid one
\* together with invalid ones
MultiKwargs ==
  {[dataframe_backend |-> Str("pandas"), math_backend |-> Str("numba"),
    print_changed_only |-> False, display |-> Str("diagram")],
   [dataframe_backend |-> Str("numba"), math_backend |-> None,
    print_changed_only |-> Str("False"), display |-> Str("diagram")]}

Kwargs == SingleKwargs \cup MultiKwargs

\* ------------------------------------------------------------------ state
VARIABLES
  global_config,   \* the module-level dict global_config
  thread_local,    \* per thread: _THREAD_LOCAL_DATA.global_config, NoAttr if unset
  frames,          \* per thread: the suspended config_context generators, innermost last
  last,            \* the most recent call: who, what, warnings emitted, exception raised
  ncalls,          \* number of calls made so far
  default_store,   \* the module-level dict _GLOBAL_CONFIG_DEFAULT
  held,            \* the mapping a caller keeps from a get_default_config() or
                   \* get_config() call: which dict object it is, and its content
  class_attrs,     \* per class: the flag attributes (_tags, _config) its body declares
  objects,         \* the BaseObject instances: class and instance __dict__
  ret              \* outcome of the most recent call on a class or an instance

vars == <<global_config, thread_local, frames, last, ncalls, default_store, held,
          class_attrs, objects, ret>>

\* the classes and instances built on BaseObject
base_objects == <<class_attrs, objects, ret>>

\* the state that no call into the configuration module writes
outside_config == <<default_store, held, class_attrs, objects, ret>>

NoAttr == [k \in {} |-> None]

hasattr(t) == thread_local[t] # NoAttr

\* dict objects: the module-level defaults, the module-level global_config,
\* a thread's _THREAD_LOCAL_DATA.global_config, and a dict that no
\* module-level name or thread-local attribute refers to
DefaultsDict == [store |-> "default", thread |-> 0]

GlobalDict == [store |-> "global", thread |-> 0]

LocalDict(t) == [store |-> "local", thread |-> t]

NewDict == [store |-> "new", thread |-> 0]

NothingHeld == [ref |-> NewDict, value |-> NoAttr]

NoCall == [op |-> "none", thread |-> 0, warnings |-> 0, raised |-> FALSE]

Call(op, t, w, r) == [op |-> op, thread |-> t, warnings |-> w, raised |-> r]

\* ------------------------------------------------------ classes
Integer(n) == [ty |-> "int", v |-> n]

EmptyDict == [k \in {} |-> None]

\* what a class body says about a flag attribute: nothing, or a mapping
Undeclared == [declared |-> FALSE, items |-> EmptyDict]

Declared(items) == [declared |-> TRUE, items |-> items]

\* BaseObject and the fixture classes Parent(BaseObject) and Child(Parent)
Classes == {"BaseObject", "Parent", "Child"}

FlagAttrs == {"_tags", "_config"}

\* `_tags: ClassVar = {}` and `_config: ClassVar = {}` of BaseObject
BaseObjectAttrs == [_tags |-> Declared(EmptyDict), _config |-> Declared(EmptyDict)]

\* the class bodies of the fixtures Parent and Child
ParentTags ==
  [k \in {"A", "B", "C", "3"} |->
     CASE k = "A" -> Str("1") [] k = "B" -> Integer(2) [] k = "C" -> Integer(1234) [] k = "3" -> Str("D")]

ChildTags == [k \in {"A", "3"} |-> IF k = "A" THEN Integer(42) ELSE Str("E")]

FixtureClasses ==
  [c \in Classes |->
     CASE c = "BaseObject" -> BaseObjectAttrs
       [] c = "Parent" -> [_tags |-> Declared(ParentTags), _config |-> Undeclared]
       [] c = "Child" -> [_tags |-> Declared(ChildTags), _config |-> Undeclared]]

\* no call on a class or an instance made yet
NoReturn == [op |-> "none", target |-> "none", raised |-> FALSE, value |-> None]

\* a call op on target (a class or an instance) returned value
Return(op, target, value) == [op |-> op, target |-> target, raised |-> FALSE, value |-> value]

\* the configuration module after import
ModuleInit ==
  /\ global_config = _GLOBAL_CONFIG_DEFAULT
  /\ thread_local = [t \in Threads |-> NoAttr]
  /\ frames = [t \in Threads |-> <<>>]
  /\ last = NoCall
  /\ ncalls = 0
  /\ default_store = _GLOBAL_CONFIG_DEFAULT
  /\ held = NothingHeld

Init ==
  /\ ModuleInit
  /\ class_attrs = FixtureClasses
  /\ objects = <<>>
  /\ ret = NoReturn

\* A run makes at most MaxCalls calls, and at most MaxSeqCalls while a single
\* thread has been calling (every call gives its thread a mapping).
CanCall(t) ==
  \/ ncalls < MaxCalls
  \/ ncalls < MaxSeqCalls /\ \A u \in Threads \ {t} : ~hasattr(u)

\* ------------------------------------------------------- pure helpers
\* _get_threadlocal_config: the thread's mapping, a copy of global_config
\* if the thread has none yet.  (CloneDefaults: a thread without a mapping
\* starts from the defaults.)
CloneDefaults(t) ==
  IF ~hasattr(t) THEN _GLOBAL_CONFIG_DEFAULT ELSE thread_local[t]

_get_threadlocal_config(t) ==
  IF ~hasattr(t) THEN global_config ELSE thread_local[t]

\* `_THREAD_LOCAL_DATA = threading.local()`: an attribute stored by thread t
\* is stored for t alone.  (ProcessWideStore: the attribute of an ordinary
\* module-level object, seen by every thread.)
ProcessWideStore(tls, t, local_config) == [u \in Threads |-> local_config]

ThreadLocalStore(tls, t, local_config) == [tls EXCEPT ![t] = local_config]

\* get_default_config: a copy of _GLOBAL_CONFIG_DEFAULT.  (SharedAsDefault:
\* the current shared mapping handed out as the defaults.)
SharedAsDefault == global_config

get_default_config == default_store

\* _update_local_config of set_config.  (StoreUnvalidated: the candidate is
\* stored as passed.)
StoreUnvalidated(local_config, param, param_name) ==
  [local_config EXCEPT ![param_name] = param]

_update_local_config(local_config, param, param_name) ==
  [local_config EXCEPT ![param_name] =
     get_valid_param_or_default(_CONFIG_REGISTRY[param_name], param,
                                local_config[param_name])]

\* the four `if <keyword> is not None` updates of set_config, in order
UpdateIfSupplied(local_config, kwargs, param_name) ==
  IF kwargs[param_name] # None
  THEN _update_local_config(local_config, kwargs[param_name], param_name)
  ELSE local_config

\* (UpdatesFromOriginal: every update is applied to the mapping as it was on
\* entry, so only the last supplied keyword survives.)
UpdatesFromOriginal(local_config, kwargs) ==
  LET c1 == UpdateIfSupplied(local_config, kwargs, "dataframe_backend")
      c2 == IF kwargs["math_backend"] # None
            THEN UpdateIfSupplied(local_config, kwargs, "math_backend") ELSE c1
      c3 == IF kwargs["print_changed_only"] # None
            THEN UpdateIfSupplied(local_config, kwargs, "print_changed_only") ELSE c2
      c4 == IF kwargs["display"] # None
            THEN UpdateIfSupplied(local_config, kwargs, "display") ELSE c3
  IN c4

set_config_local(local_config, kwargs) ==
  LET c1 == UpdateIfSupplied(local_config, kwargs, "dataframe_backend")
      c2 == UpdateIfSupplied(c1, kwargs, "math_backend")
      c3 == UpdateIfSupplied(c2, kwargs, "print_changed_only")
      c4 == UpdateIfSupplied(c3, kwargs, "display")
  IN c4

\* (KeepShared: the shared mapping is never updated.)
KeepShared(glob, local_config, local_threadsafe) == glob

\* `if not local_threadsafe: global_config.update(local_config)`
set_config_global(glob, local_config, local_threadsafe) ==
  IF ~local_threadsafe THEN local_config ELSE glob

set_config_warnings(kwargs) ==
  LET w(k) == IF kwargs[k] # None THEN warn_count(_CONFIG_REGISTRY[k], kwargs[k]) ELSE 0
  IN w("dataframe_backend") + w("math_backend") + w("print_changed_only") + w("display")

\* ---------------------------------------------------------------- actions
get_config(t) ==
  /\ CanCall(t)
  /\ thread_local' = ThreadLocalStore(thread_local, t, _get_threadlocal_config(t))
  /\ last' = Call("get_config", t, 0, FALSE)
  /\ ncalls' = ncalls + 1
  /\ UNCHANGED <<global_config, frames>>
  /\ UNCHANGED outside_config

set_config(t, kwargs, local_threadsafe) ==
  LET local_config == set_config_local(_get_threadlocal_config(t), kwargs) IN
  /\ CanCall(t)
  /\ thread_local' = ThreadLocalStore(thread_local, t, local_config)
  /\ global_config' = set_config_global(global_config, local_config, local_threadsafe)
  /\ last' = Call("set_config", t, set_config_warnings(kwargs), FALSE)
  /\ ncalls' = ncalls + 1
  /\ UNCHANGED frames
  /\ UNCHANGED outside_config

\* reset_config: set_config(**get_default_config()), local_threadsafe left
\* at its default False
reset_config(t) ==
  LET default_config == get_default_config
      local_config == set_config_local(_get_threadlocal_config(t), default_config)
  IN
  /\ CanCall(t)
  /\ thread_local' = ThreadLocalStore(thread_local, t, local_config)
  /\ global_config' = set_config_global(global_config, local_config, FALSE)
  /\ last' = Call("reset_config", t, set_config_warnings(default_config), FALSE)
  /\ ncalls' = ncalls + 1
  /\ UNCHANGED frames
  /\ UNCHANGED outside_config

\* the generator frame of one config_context call, as far as the code after
\* the yield can depend on it: local_threadsafe and the saved old_config
Frame(local_threadsafe, old_config) ==
  [local_threadsafe |-> local_threadsafe, old_config |-> old_config]

\* entering `with config_context(**kwargs, local_threadsafe=...)`: the code
\* up to the yield
config_context_enter(t, kwargs, local_threadsafe) ==
  LET old_config == _get_threadlocal_config(t)
      local_config == set_config_local(old_config, kwargs)
  IN
  /\ CanCall(t)
  /\ Len(frames[t]) < MaxDepth
  /\ thread_local' = ThreadLocalStore(thread_local, t, local_config)
  /\ global_config' = set_config_global(global_config, local_config, local_threadsafe)
  /\ frames' = [frames EXCEPT ![t] = Append(@, Frame(local_threadsafe, old_config))]
  /\ last' = Call("config_context_enter", t, set_config_warnings(kwargs), FALSE)
  /\ ncalls' = ncalls + 1
  /\ UNCHANGED outside_config

\* the generator that leaving a with block resumes: the innermost one.
\* (OutermostFrame: the oldest one.)
OutermostFrame(fs) == fs[1]

InnermostFrame(fs) == fs[Len(fs)]

\* the keyword arguments of the restoring call set_config(**old_config).
\* (RestoreDefaults: the defaults are restored, not the saved mapping.)
RestoreDefaults(frame) == _GLOBAL_CONFIG_DEFAULT

restore_kwargs(frame) == frame.old_config

\* local_threadsafe is not passed to the restoring call and takes its
\* default False
restore_local_threadsafe(frame) == FALSE

\* leaving the with block, normally or with an exception raised in the body
\* (raising): the finally clause, after which the exception propagates
config_context_exit(t, raising) ==
  LET frame == InnermostFrame(frames[t])
      local_config == set_config_local(_get_threadlocal_config(t), restore_kwargs(frame))
  IN
  /\ CanCall(t)
  /\ frames[t] # <<>>
  /\ thread_local' = ThreadLocalStore(thread_local, t, local_config)
  /\ global_config' = set_config_global(global_config, local_config,
                                        restore_local_threadsafe(frame))
  /\ frames' = [frames EXCEPT ![t] = SubSeq(@, 1, Len(@) - 1)]
  /\ last' = Call("config_context_exit", t, set_config_warnings(restore_kwargs(frame)), raising)
  /\ ncalls' = ncalls + 1
  /\ UNCHANGED outside_config

\* the keyword-only signature shared by set_config and config_context
Signature == Keys \cup {"local_threadsafe"}

\* keyword names that are not parameters (test_set_config_invalid_keyword_argument,
\* test_config_context_invalid_keyword_argument)
UnexpectedNames == {"do_something_else"}

\* the recognised keywords that accompany an unexpected one
UnexpectedKwargs == {NoKwargs, [NoKwargs EXCEPT !["print_changed_only"] = False]}

\* (BindsAnyKeyword: the signature swallows unknown keywords, as one ending
\* in **kwargs would.)
BindsAnyKeyword(names) == TRUE

\* Python's binding of the call's keywords to the signature, which precedes
\* the first statement of the body: it fails with TypeError (unexpected
\* keyword argument) on a name outside the signature
binds(names) == names \subseteq Signature

\* set_config called with the keyword `name` besides kwargs
set_config_keyword(t, name, kwargs, local_threadsafe) ==
  IF binds(Supplied(kwargs) \cup {name, "local_threadsafe"})
  THEN set_config(t, kwargs, local_threadsafe)
  ELSE /\ CanCall(t)
       /\ last' = Call("set_config", t, 0, TRUE)
       /\ ncalls' = ncalls + 1
       /\ UNCHANGED <<global_config, thread_local, frames>>
       /\ UNCHANGED outside_config

\* config_context called with the keyword `name` besides kwargs: the
\* contextmanager wrapper calls the generator function at once, so the
\* TypeError is raised by the call, before the with block is entered
config_context_keyword(t, name, kwargs, local_threadsafe) ==
  IF binds(Supplied(kwargs) \cup {name, "local_threadsafe"})
  THEN config_context_enter(t, kwargs, local_threadsafe)
  ELSE /\ CanCall(t)
       /\ last' = Call("config_context", t, 0, TRUE)
       /\ ncalls' = ncalls + 1
       /\ UNCHANGED <<global_config, thread_local, frames>>
       /\ UNCHANGED outside_config

Next ==
  \E t \in Threads :
    \/ get_config(t)
    \/ \E kw \in Kwargs, lts \in BOOLEAN : set_config(t, kw, lts)
    \/ reset_config(t)
    \/ \E kw \in Kwargs, lts \in BOOLEAN : config_context_enter(t, kw, lts)
    \/ \E raising \in BOOLEAN : config_context_exit(t, raising)
    \/ \E name \in UnexpectedNames, kw \in UnexpectedKwargs, lts \in BOOLEAN :
         set_config_keyword(t, name, kw, lts)
    \/ \E name \in UnexpectedNames, kw \in UnexpectedKwargs, lts \in BOOLEAN :
         config_context_keyword(t, name, kw, lts)

Spec == Init /\ [][Next]_vars

\* ------------------------------------------------------- worker threads
\* Threads that run `with config_context(...)` blocks side by side, as the
\* workers of test_config_threadsafe do; a run makes at most MaxWorkerCalls
\* calls in all.
CanWork == ncalls < MaxWorkerCalls

\* the keyword arguments the workers pass
WorkerKwargs ==
  {[NoKwargs EXCEPT !["print_changed_only"] = False],
   [NoKwargs EXCEPT !["display"] = Str("diagram")]}

\* a worker's get_config()
worker_get_config(t) ==
  /\ CanWork
  /\ thread_local' = ThreadLocalStore(thread_local, t, _get_threadlocal_config(t))
  /\ last' = Call("get_config", t, 0, FALSE)
  /\ ncalls' = ncalls + 1
  /\ UNCHANGED <<global_config, frames>>
  /\ UNCHANGED outside_config

\* a worker enters `with config_context(**kwargs)`, local_threadsafe left at
\* its default False
worker_enter(t, kwargs) ==
  LET old_config == _get_threadlocal_config(t)
      local_config == set_config_local(old_config, kwargs)
  IN
  /\ CanWork
  /\ Len(frames[t]) < MaxDepth
  /\ thread_local' = ThreadLocalStore(thread_local, t, local_config)
  /\ global_config' = set_config_global(global_config, local_config, FALSE)
  /\ frames' = [frames EXCEPT ![t] = Append(@, Frame(FALSE, old_config))]
  /\ last' = Call("config_context_enter", t, set_config_warnings(kwargs), FALSE)
  /\ ncalls' = ncalls + 1
  /\ UNCHANGED outside_config

\* a worker leaves its innermost with block
worker_exit(t) ==
  LET frame == InnermostFrame(frames[t])
      local_config == set_config_local(_get_threadlocal_config(t), restore_kwargs(frame))
  IN
  /\ CanWork
  /\ frames[t] # <<>>
  /\ thread_local' = ThreadLocalStore(thread_local, t, local_config)
  /\ global_config' = set_config_global(global_config, local_config,
                                        restore_local_threadsafe(frame))
  /\ frames' = [frames EXCEPT ![t] = SubSeq(@, 1, Len(@) - 1)]
  /\ last' = Call("config_context_exit", t, set_config_warnings(restore_kwargs(frame)), FALSE)
  /\ ncalls' = ncalls + 1
  /\ UNCHANGED outside_config

\* a worker calls set_config(**kwargs), local_threadsafe left at its default
\* False; the call is recorded with its keyword arguments
worker_set_config(t, kwargs) ==
  LET local_config == set_config_local(_get_threadlocal_config(t), kwargs) IN
  /\ CanWork
  /\ thread_local' = ThreadLocalStore(thread_local, t, local_config)
  /\ global_config' = set_config_global(global_config, local_config, FALSE)
  /\ last' = Call("set_config", t, set_config_warnings(kwargs), FALSE)
  /\ ret' = Return("set_config", t, kwargs)
  /\ ncalls' = ncalls + 1
  /\ UNCHANGED <<frames, default_store, held, class_attrs, objects>>

\* workers that only read the configuration and run scopes
ScopesNext ==
  \E t \in Threads :
    \/ worker_get_config(t)
    \/ \E kwargs \in WorkerKwargs : worker_enter(t, kwargs)
    \/ worker_exit(t)

ScopesSpec == Init /\ [][ScopesNext]_vars

\* workers that also call set_config
WorkersNext ==
  \/ ScopesNext
  \/ \E t \in Threads, kwargs \in WorkerKwargs : worker_set_config(t, kwargs)

WorkersSpec == Init /\ [][WorkersNext]_vars

\* ------------------------------------------------- returned mappings
\* dict.copy(): a new dict object holding the same items.  (SameObject: the
\* dict itself is handed out.)
SameObject(obj) == obj

copy(obj) == NewDict

\* get_default_config() called by a caller that keeps the result
get_default_config_kept(t) ==
  /\ CanCall(t)
  /\ held' = [ref |-> copy(DefaultsDict), value |-> get_default_config]
  /\ last' = Call("get_default_config", t, 0, FALSE)
  /\ ncalls' = ncalls + 1
  /\ UNCHANGED <<global_config, thread_local, frames, default_store>>
  /\ UNCHANGED base_objects

\* get_config() called by a caller that keeps the result
get_config_kept(t) ==
  /\ CanCall(t)
  /\ thread_local' = ThreadLocalStore(thread_local, t, _get_threadlocal_config(t))
  /\ held' = [ref |-> copy(LocalDict(t)), value |-> _get_threadlocal_config(t)]
  /\ last' = Call("get_config", t, 0, FALSE)
  /\ ncalls' = ncalls + 1
  /\ UNCHANGED <<global_config, frames, default_store>>
  /\ UNCHANGED base_objects

\* what the caller of get_default_config() or get_config() assigns into the
\* mapping it got: a valid value and one no parameter allows
Assigned == {Str("diagram"), Str("changed")}

AssignedKeys == {"print_changed_only", "display"}

\* the content of dict object obj after `d[k] = v` on the dict object ref
\* refers to
setitem(content, obj, ref, k, v) ==
  IF ref = obj THEN [content EXCEPT ![k] = v] ELSE content

\* the caller's `held[k] = v`
held_setitem(t, k, v) ==
  /\ CanCall(t)
  /\ held # NothingHeld
  /\ held.value[k] # v
  /\ held' = [held EXCEPT !.value[k] = v]
  /\ default_store' = setitem(default_store, DefaultsDict, held.ref, k, v)
  /\ global_config' = setitem(global_config, GlobalDict, held.ref, k, v)
  /\ thread_local' =
       [u \in Threads |-> IF hasattr(u)
                          THEN setitem(thread_local[u], LocalDict(u), held.ref, k, v)
                          ELSE thread_local[u]]
  /\ last' = Call("setitem", t, 0, FALSE)
  /\ ncalls' = ncalls + 1
  /\ UNCHANGED frames
  /\ UNCHANGED base_objects

\* the configuration calls made between and around those of the callers
\* that keep a mapping (test_get_default_config_always_returns_default)
CopyKwargs ==
  {[NoKwargs EXCEPT !["print_changed_only"] = False],
   [NoKwargs EXCEPT !["display"] = Str("diagram")]}

CopyNext ==
  \E t \in Threads :
    \/ get_default_config_kept(t)
    \/ get_config_kept(t)
    \/ \E k \in AssignedKeys, v \in Assigned : held_setitem(t, k, v)
    \/ \E kw \in CopyKwargs, lts \in BOOLEAN : set_config(t, kw, lts)
    \/ reset_config(t)
    \/ \E kw \in CopyKwargs, lts \in BOOLEAN : config_context_enter(t, kw, lts)
    \/ \E raising \in BOOLEAN : config_context_exit(t, raising)

CopySpec == Init /\ [][CopyNext]_vars

\* ------------------------------------------------------- class flags
\* inspect.getmro(cls): the linearisation of the fixture hierarchy
getmro(cls) ==
  CASE cls = "Child" -> <<"Child", "Parent", "BaseObject", "object">>
    [] cls = "Parent" -> <<"Parent", "BaseObject", "object">>
    [] cls = "BaseObject" -> <<"BaseObject", "object">>
    [] cls = "object" -> <<"object">>

\* hasattr(cls, name) / getattr(cls, name) for a flag attribute: class
\* attribute lookup takes the first class of the MRO whose body declares it
Declaring(cls, name) ==
  {i \in 1..Len(getmro(cls)) :
     getmro(cls)[i] \in Classes /\ class_attrs[getmro(cls)[i]][name].declared}

class_hasattr(cls, name) == Declaring(cls, name) # {}

class_getattr(cls, name) ==
  LET first == CHOOSE i \in Declaring(cls, name) : \A j \in Declaring(cls, name) : i <= j
  IN class_attrs[getmro(cls)[first]][name].items

\* dict.update: the items of `more` replace and extend those of d
update(d, more) ==
  [k \in DOMAIN d \cup DOMAIN more |-> IF k \in DOMAIN more THEN more[k] ELSE d[k]]

\* (Unreversed: the MRO is walked from the class itself up to BaseObject.)
Unreversed(seq) == seq

reversed(seq) == [i \in 1..Len(seq) |-> seq[Len(seq) + 1 - i]]

\* the loop of _get_class_flags over the classes still to visit
RECURSIVE collect_flags(_, _, _)
collect_flags(classes, flag_attr_name, collected_flags) ==
  IF classes = <<>>
  THEN collected_flags
  ELSE LET parent_class == Head(classes) IN
       collect_flags(Tail(classes), flag_attr_name,
                     IF class_hasattr(parent_class, flag_attr_name)
                     THEN update(collected_flags, class_getattr(parent_class, flag_attr_name))
                     ELSE collected_flags)

\* BaseObject._get_class_flags; inspect.getmro(cls)[:-1] drops `object`
_get_class_flags(cls, flag_attr_name) ==
  collect_flags(reversed(SubSeq(getmro(cls), 1, Len(getmro(cls)) - 1)),
                flag_attr_name, EmptyDict)

\* the classmethod _get_class_tags called on cls
_get_class_tags(cls) ==
  /\ ret' = Return("_get_class_tags", cls, _get_class_flags(cls, "_tags"))
  /\ UNCHANGED <<class_attrs, objects>>
  /\ UNCHANGED <<global_config, thread_local, frames, last, ncalls, default_store, held>>

\* class bodies that a hierarchy BaseObject <- Parent <- Child may have:
\* each of Parent and Child declares no _tags or a mapping over these names
\* and values
TagNames == {"A", "B"}

TagValues == {Integer(1), Integer(42)}

TagItems == UNION {[names -> TagValues] : names \in SUBSET TagNames}

TagDecls == {Undeclared} \cup {Declared(items) : items \in TagItems}

ClassBodies ==
  {[c \in Classes |->
      CASE c = "BaseObject" -> BaseObjectAttrs
        [] c = "Parent" -> [_tags |-> p, _config |-> Undeclared]
        [] c = "Child" -> [_tags |-> c2, _config |-> Undeclared]] :
     p \in TagDecls, c2 \in TagDecls}

ClassInit ==
  /\ ModuleInit
  /\ class_attrs \in ClassBodies \cup {FixtureClasses}
  /\ objects = <<>>
  /\ ret = NoReturn

ClassNext == \E cls \in Classes : _get_class_tags(cls)

ClassSpec == ClassInit /\ [][ClassNext]_vars

\* ---------------------------------------------------------- instances
ObjIds == 1..NumObjects

\* the init parameters of Parent (and Child) with their defaults
ParamDefaults == [a |-> Str("something"), b |-> Integer(7), c |-> None]

\* the fields with init=False and factory=dict
FieldFactories == [_tags_dynamic |-> EmptyDict, _config_dynamic |-> EmptyDict]

\* the attrs-generated __init__(**kwargs) run on an instance __dict__: every
\* field is assigned, a parameter its argument or default, a factory field
\* a new empty dict
__init__(dict, kwargs) == update(dict, update(update(ParamDefaults, kwargs), FieldFactories))

\* cls(**kwargs)
construct(cls, kwargs) == [cls |-> cls, dict |-> __init__(EmptyDict, kwargs)]

\* f"{flag_attr_name}_dynamic"
dynamic_name(flag_attr_name) ==
  IF flag_attr_name = "_tags" THEN "_tags_dynamic" ELSE "_config_dynamic"

\* (ClassFlagsOnly: the dynamic overrides are not consulted.)
ClassFlagsOnly(self, flag_attr_name) == _get_class_flags(self.cls, flag_attr_name)

\* BaseObject._get_flags.  hasattr(self, ..._dynamic) looks in the instance
\* __dict__ only: attrs removed the field definitions from the class.
_get_flags(self, flag_attr_name) ==
  LET collected_flags == _get_class_flags(self.cls, flag_attr_name) IN
  IF dynamic_name(flag_attr_name) \in DOMAIN self.dict
  THEN update(collected_flags, self.dict[dynamic_name(flag_attr_name)])
  ELSE collected_flags

\* BaseObject._set_flags: the instance __dict__ afterwards
_set_flags(self, flag_attr_name, flag_dict) ==
  LET dynamic_flags == dynamic_name(flag_attr_name) IN
  IF dynamic_flags \in DOMAIN self.dict
  THEN [self.dict EXCEPT ![dynamic_flags] = update(@, flag_dict)]
  ELSE update(self.dict, [n \in {dynamic_flags} |-> flag_dict])

\* a state-changing call on an instance is possible
CanOp == ncalls < MaxOps

\* the frame of a call on instance i that touches nothing but i's __dict__
Op(i, op, dict, value) ==
  /\ objects' = [objects EXCEPT ![i].dict = dict]
  /\ ret' = Return(op, i, value)
  /\ UNCHANGED <<global_config, thread_local, frames, last, default_store, held, class_attrs>>

\* obj._set_tags(**tag_dict); returns self
_set_tags(i, tag_dict) ==
  /\ CanOp
  /\ ncalls' = ncalls + 1
  /\ Op(i, "_set_tags", _set_flags(objects[i], "_tags", tag_dict), None)

\* obj._get_tags()
_get_tags(i) ==
  /\ Op(i, "_get_tags", objects[i].dict, _get_flags(objects[i], "_tags"))
  /\ UNCHANGED ncalls

\* (GetOrDefault: a missing flag yields the default whatever raise_error is.)
GetOrDefault(self, flag_name, flag_value_default, flag_attr_name, raise_error) ==
  LET collected_flags == _get_flags(self, flag_attr_name) IN
  [raised |-> FALSE,
   value |-> IF flag_name \in DOMAIN collected_flags
             THEN collected_flags[flag_name] ELSE flag_value_default]

\* BaseObject._get_flag: the value returned, or the ValueError raised with
\* the message "<flag_> with name <flag_name> could not be found."
_get_flag(self, flag_name, flag_value_default, flag_attr_name, raise_error) ==
  LET collected_flags == _get_flags(self, flag_attr_name)
      flag_value == IF flag_name \in DOMAIN collected_flags
                    THEN collected_flags[flag_name] ELSE flag_value_default
  IN IF raise_error /\ flag_name \notin DOMAIN collected_flags
     THEN [raised |-> TRUE,
           value |-> [exc |-> "ValueError",
                      flag_ |-> IF flag_attr_name = "_tags" THEN "Tag" ELSE "Config",
                      flag_name |-> flag_name]]
     ELSE [raised |-> FALSE, value |-> flag_value]

\* obj._get_tag(tag_name, tag_value_default, raise_error)
_get_tag(i, tag_name, tag_value_default, raise_error) ==
  LET out == _get_flag(objects[i], tag_name, tag_value_default, "_tags", raise_error) IN
  /\ objects' = objects
  /\ ret' = [op |-> "_get_tag", target |-> i, raised |-> out.raised, value |-> out.value]
  /\ UNCHANGED <<global_config, thread_local, frames, last, ncalls, default_store, held,
                 class_attrs>>

\* the names _get_tag is asked for: a class tag, which _set_tags may
\* override, and a name nothing defines; and the defaults passed
LookedUp == {"A", "foo"}

LookupDefaults == {None, Str("bar")}

\* keyword arguments of _set_tags: an override of a class tag, another value
\* for it, a tag no class declares, and several tags at once
TagDicts ==
  {[n \in {"A"} |-> Integer(99)], [n \in {"A"} |-> Integer(3)],
   [n \in {"E"} |-> Integer(3)], [n \in {"B", "E"} |-> Integer(3)]}

FlagInit ==
  /\ ModuleInit
  /\ class_attrs = FixtureClasses
  /\ objects = [i \in ObjIds |-> construct("Child", EmptyDict)]
  /\ ret = NoReturn

FlagNext ==
  \E i \in ObjIds :
    \/ \E tag_dict \in TagDicts : _set_tags(i, tag_dict)
    \/ _get_tags(i)
    \/ \E tag_name \in LookedUp, tag_value_default \in LookupDefaults, raise_error \in BOOLEAN :
         _get_tag(i, tag_name, tag_value_default, raise_error)

FlagSpec == FlagInit /\ [][FlagNext]_vars

\* ------------------------------------------------------------ cloned flags
\* (CloneNothing: no flag of obj is applied to self.)
CloneNothing(self, obj, flag_names, flag_attr_name) ==
  _set_flags(self, flag_attr_name, EmptyDict)

\* BaseObject._clone_flags: the __dict__ of self afterwards.  flag_names is
\* None, a str or a list of names; the deepcopy of obj's flags has the same
\* items, the values being immutable.
_clone_flags(self, obj, flag_names, flag_attr_name) ==
  LET flags_est == _get_flags(obj, flag_attr_name)
      flag_names_ == IF flag_names = None THEN DOMAIN flags_est
                     ELSE IF flag_names.ty = "str" THEN {flag_names.v}
                     ELSE {flag_names.v[n] : n \in DOMAIN flag_names.v}
      update_dict == [key \in {k \in flag_names_ : k \in DOMAIN flags_est} |-> flags_est[key]]
  IN _set_flags(self, flag_attr_name, update_dict)

\* a._clone_tags(b, tag_names); returns self
_clone_tags(i, j, tag_names) ==
  /\ CanOp
  /\ ncalls' = ncalls + 1
  /\ Op(i, "_clone_tags", _clone_flags(objects[i], objects[j], tag_names, "_tags"),
        [obj |-> j, tag_names |-> tag_names])

\* tag_names given as a list
TagNameLists == {[ty |-> "list", v |-> <<"E", "foo">>]}

\* a Parent and a Child instance, as constructed
CloneInit ==
  /\ ModuleInit
  /\ class_attrs = FixtureClasses
  /\ objects = <<construct("Parent", EmptyDict), construct("Child", EmptyDict)>>
  /\ ret = NoReturn

CloneNext ==
  \/ \E i \in DOMAIN objects, tag_dict \in TagDicts : _set_tags(i, tag_dict)
  \/ \E i \in DOMAIN objects, j \in DOMAIN objects,
        tag_names \in {None, Str("A"), Str("foo")} : _clone_tags(i, j, tag_names)
  \/ \E i \in DOMAIN objects, j \in DOMAIN objects,
        tag_names \in TagNameLists : _clone_tags(i, j, tag_names)

CloneSpec == CloneInit /\ [][CloneNext]_vars

\* ---------------------------------------------------- effective config
\* the loop of _get_config over the instance's local config: a value for a
\* registered key is validated, with the thread's current value as fallback
validate_local_config(local_config, config) ==
  [config_param_ \in DOMAIN local_config |->
     IF config_param_ \in Keys
     THEN get_valid_param_or_default(_CONFIG_REGISTRY[config_param_],
                                     local_config[config_param_], config[config_param_])
     ELSE local_config[config_param_]]

\* obj._get_config() called by thread t; get_config() gives the thread its
\* mapping if it had none
_get_config(i, t) ==
  LET config == _get_threadlocal_config(t)
      local_config == _get_flags(objects[i], "_config")
  IN
  /\ thread_local' = ThreadLocalStore(thread_local, t, config)
  /\ ret' = Return("_get_config", i, update(config, validate_local_config(local_config, config)))
  /\ UNCHANGED <<global_config, frames, last, ncalls, default_store, held, class_attrs, objects>>

\* obj._set_config(**config_dict); returns self
_set_config(i, config_dict) ==
  /\ CanOp
  /\ ncalls' = ncalls + 1
  /\ Op(i, "_set_config", _set_flags(objects[i], "_config", config_dict), None)

\* keyword arguments of _set_config: a valid value, an invalid one, and a
\* key that is no global configuration parameter
ConfigDicts ==
  {[n \in {"print_changed_only"} |-> False], [n \in {"display"} |-> Str("bad")],
   [n \in {"verbose"} |-> Integer(1)]}

\* class bodies with and without a class-level _config on Child
ConfigBodies ==
  {[FixtureClasses EXCEPT !["Child"]["_config"] = decl] :
     decl \in {Undeclared, Declared([n \in {"display"} |-> Str("diagram")]),
               Declared([n \in {"display"} |-> Integer(0)])}}

\* one instance of Child, used by every thread
EffectiveInit ==
  /\ ModuleInit
  /\ class_attrs \in ConfigBodies
  /\ objects = <<construct("Child", EmptyDict)>>
  /\ ret = NoReturn

EffectiveNext ==
  \/ \E t \in Threads, kw \in CopyKwargs, lts \in BOOLEAN : set_config(t, kw, lts)
  \/ \E config_dict \in ConfigDicts : _set_config(1, config_dict)
  \/ \E t \in Threads : _get_config(1, t)

EffectiveSpec == EffectiveInit /\ [][EffectiveNext]_vars

\* ---------------------------------------------------------- parameters
\* a parameter value that is a BaseObject instance
Obj(id) == [ty |-> "obj", v |-> id]

\* _get_param_names(init_only=True): the names in the __init__ signature
_get_param_names(cls) == DOMAIN ParamDefaults

\* hasattr(value, "get_params")
has_get_params(value) == value.ty = "obj"

\* the items of deep_items under the keys f"{key}__{k}"
prefixed(key, deep_items) ==
  [dk \in {key \o "__" \o k : k \in DOMAIN deep_items} |->
     deep_items[CHOOSE k \in DOMAIN deep_items : dk = key \o "__" \o k]]

RECURSIVE get_params(_, _, _)

\* (ComponentShallow: a component is asked for its own parameters only.)
ComponentShallow(objs, value) == get_params(objs, objs[value.v], FALSE)

\* value.get_params(), deep by default; objs are the instances as they are
\* at the time of the call
component_params(objs, value) == get_params(objs, objs[value.v], TRUE)

RECURSIVE deep_params(_, _, _, _)
\* the loop of get_params over params.items(), for the keys still to visit
deep_params(objs, params, keys, collected) ==
  IF keys = {}
  THEN collected
  ELSE LET key == CHOOSE k \in keys : TRUE IN
       deep_params(objs, params, keys \ {key},
                   IF has_get_params(params[key])
                   THEN update(collected, prefixed(key, component_params(objs, params[key])))
                   ELSE collected)

\* BaseObject.get_params on an instance that has all its parameters
get_params(objs, self, deep) ==
  LET parameters == _get_param_names(self.cls)
      params == [key \in parameters |-> self.dict[key]]
  IN IF deep
     THEN update(params, deep_params(objs, params, parameters, EmptyDict))
     ELSE params

\* obj.get_params(deep); AttributeError if an init parameter is not an
\* attribute of the instance
call_get_params(i, deep) ==
  LET missing_params == _get_param_names(objects[i].cls) \ DOMAIN objects[i].dict IN
  /\ objects' = objects
  /\ ret' = IF missing_params # {}
            THEN [op |-> "get_params", target |-> i, raised |-> TRUE,
                  value |-> [exc |-> "AttributeError", missing |-> missing_params]]
            ELSE Return("get_params", i, get_params(objects, objects[i], deep))
  /\ UNCHANGED <<global_config, thread_local, frames, last, ncalls, default_store, held,
                 class_attrs>>

\* instances 1..MaxNesting+1 of Child; an instance may have the next one as
\* its parameter a or c, and a plain value as a
Nested == 1..(MaxNesting + 1)

ChildKwargs(i) ==
  {update(pa, pc) :
     pa \in {EmptyDict, [n \in {"a"} |-> Str("x")]}
             \cup {[n \in {"a"} |-> Obj(j)] : j \in {i + 1} \cap Nested},
     pc \in {EmptyDict} \cup {[n \in {"c"} |-> Obj(j)] : j \in {i + 1} \cap Nested}}

GetParamsInit ==
  /\ ModuleInit
  /\ class_attrs = FixtureClasses
  /\ \E kw \in [Nested -> UNION {ChildKwargs(i) : i \in Nested}] :
       /\ \A i \in Nested : kw[i] \in ChildKwargs(i)
       /\ objects = [i \in Nested |-> construct("Child", kw[i])]
  /\ ret = NoReturn

GetParamsNext == \E i \in Nested, deep \in BOOLEAN : call_get_params(i, deep)

GetParamsSpec == GetParamsInit /\ [][GetParamsNext]_vars

\* --------------------------------------------------- reset and set_params
\* the pieces attribute names and parameter keys are made of
Pieces == {"", "a", "b", "c", "z", "f", "o", "o__o", "c__a"}

\* sub in name
contains(name, sub) == \E pre \in Pieces, post \in Pieces : name = pre \o sub \o post

\* name.partition(sep): the split at the first occurrence of sep
partition(name, sep) ==
  IF contains(name, sep)
  THEN LET head == CHOOSE pre \in Pieces :
                     /\ ~contains(pre, sep)
                     /\ \E post \in Pieces : name = pre \o sep \o post
       IN <<head, sep, CHOOSE post \in Pieces : name = head \o sep \o post>>
  ELSE <<name, "", "">>

\* the names of dir(type(self)) without "__": the class attributes and the
\* methods.  The attrs fields are not among them: attrs takes the field
\* definitions out of the class body.
dir_type(cls) == FlagAttrs \cup {"get_params", "set_params", "reset"}

\* (NoSelfAttrs: reset finds nothing to delete.)
NoSelfAttrs(self) == {}

\* set(attrs).difference(cls_attrs) of reset and _components
self_attrs(self) ==
  LET attrs == {attr \in DOMAIN self.dict \cup dir_type(self.cls) : ~contains(attr, "__")}
      cls_attrs == dir_type(self.cls)
  IN attrs \ cls_attrs

\* (ReinitOnly: __init__ is run again without deleting anything first.)
ReinitOnly(objs, self) == __init__(self.dict, get_params(objs, self, FALSE))

\* BaseObject.reset: the instance __dict__ afterwards
reset(objs, self) ==
  LET params == get_params(objs, self, FALSE)
      deleted == self_attrs(self)
      kept == [attr \in DOMAIN self.dict \ deleted |-> self.dict[attr]]
  IN __init__(kept, params)

\* obj.reset(); returns self
call_reset(i) ==
  /\ CanOp
  /\ ncalls' = ncalls + 1
  /\ Op(i, "reset", reset(objects, objects[i]), Obj(i))

\* the attributes ResetTester.foo() sets on the instance
FooAttrs ==
  [d |-> Integer(126), _d |-> Integer(126), d_ |-> Integer(126), f__o__o |-> Integer(252)]

\* an instance attribute under the name of a class attribute
ShadowAttrs == [n \in {"_tags"} |-> [k \in {"A"} |-> Integer(7)]]

\* setattr(obj, name, value) for each item of attrs, by a method like foo or
\* by the caller
obj_setattr(i, attrs) ==
  /\ CanOp
  /\ ncalls' = ncalls + 1
  /\ Op(i, "setattr", update(objects[i].dict, attrs), None)

\* (DropNested: a nested key is accepted and forgotten.)
DropNested(nested_params, key, sub_key, value) == nested_params

\* nested_params[key][sub_key] = value on the defaultdict(dict), kept in
\* insertion order as pairs <<key, items>>
nested_setitem(nested_params, key, sub_key, value) ==
  IF \E m \in DOMAIN nested_params : nested_params[m][1] = key
  THEN [m \in DOMAIN nested_params |->
          IF nested_params[m][1] = key
          THEN <<key, Append(nested_params[m][2], <<sub_key, value>>)>>
          ELSE nested_params[m]]
  ELSE Append(nested_params, <<key, << <<sub_key, value>> >> >>)

RECURSIVE set_params_loop(_, _, _)
\* the loop of set_params over params.items() from item n on; st holds the
\* instance __dict__, valid_params, nested_params and whether ValueError
\* was raised
set_params_loop(params, n, st) ==
  IF n > Len(params) \/ st.raised
  THEN st
  ELSE LET parts == partition(params[n][1], "__")
           key == parts[1]
           delim == parts[2]
           sub_key == parts[3]
           value == params[n][2]
       IN IF key \notin DOMAIN st.valid_params
          THEN [st EXCEPT !.raised = TRUE]
          ELSE set_params_loop(params, n + 1,
                 IF delim # ""
                 THEN [st EXCEPT !.nested_params = nested_setitem(@, key, sub_key, value)]
                 ELSE [st EXCEPT !.dict = update(@, [k \in {key} |-> value]),
                                 !.valid_params = update(@, [k \in {key} |-> value])])

\* hasattr(value, "set_params")
has_set_params(value) == value.ty = "obj"

RECURSIVE set_params(_, _, _)
RECURSIVE recurse_in_components(_, _, _, _)

\* (NeverEmpty: the early return for an empty update is not taken.)
NeverEmpty(params) == FALSE

\* `not params` for the keyword arguments of set_params
not_params(params) == Len(params) = 0

\* BaseObject.set_params(**params) on instance i, params being the keyword
\* arguments in call order: the instances afterwards and the exception
\* raised, if any
set_params(objs, i, params) ==
  IF not_params(params)
  THEN [objs |-> objs, raised |-> "none"]
  ELSE LET st == set_params_loop(params, 1,
                   [dict |-> objs[i].dict,
                    valid_params |-> get_params(objs, objs[i], TRUE),
                    nested_params |-> <<>>,
                    raised |-> FALSE])
           assigned == [objs EXCEPT ![i].dict = st.dict]
       IN IF st.raised
          THEN [objs |-> assigned, raised |-> "ValueError"]
          ELSE recurse_in_components(
                 [assigned EXCEPT ![i].dict = reset(assigned, assigned[i])],
                 st.valid_params, st.nested_params, 1)

\* the loop of set_params over nested_params.items() from item n on
recurse_in_components(objs, valid_params, nested_params, n) ==
  IF n > Len(nested_params)
  THEN [objs |-> objs, raised |-> "none"]
  ELSE LET component == valid_params[nested_params[n][1]] IN
       IF ~has_set_params(component)
       THEN [objs |-> objs, raised |-> "AttributeError"]
       ELSE LET done == set_params(objs, component.v, nested_params[n][2]) IN
            IF done.raised # "none"
            THEN done
            ELSE recurse_in_components(done.objs, valid_params, nested_params, n + 1)

\* obj.set_params(**params); returns self
call_set_params(i, params) ==
  LET done == set_params(objects, i, params) IN
  /\ CanOp
  /\ ncalls' = ncalls + 1
  /\ objects' = done.objs
  /\ ret' = IF done.raised # "none"
            THEN [op |-> "set_params", target |-> i, raised |-> TRUE,
                  value |-> [exc |-> done.raised]]
            ELSE Return("set_params", i, Obj(i))
  /\ UNCHANGED <<global_config, thread_local, frames, last, default_store, held,
                 class_attrs>>

\* the keyword arguments the callers pass to set_params
ParamSettings ==
  {<<>>,
   << <<"a", Str("x")>> >>,
   << <<"c__a", Str("y")>> >>,
   << <<"a", Str("x")>>, <<"c__a", Str("y")>> >>,
   << <<"a", Str("x")>>, <<"z", Integer(1)>> >>,
   << <<"z", Integer(1)>>, <<"a", Str("x")>> >>,
   << <<"c__z", Integer(1)>> >>}

\* two instances of Child: instance 1 is composed of instance 2 (its
\* parameter c), or both are plain
ParamInit ==
  /\ ModuleInit
  /\ class_attrs = FixtureClasses
  /\ \E kwargs \in {EmptyDict, [n \in {"c"} |-> Obj(2)]} :
       objects = <<construct("Child", kwargs), construct("Child", EmptyDict)>>
  /\ ret = NoReturn

ParamNext ==
  \/ \E i \in DOMAIN objects : call_reset(i)
  \/ \E i \in DOMAIN objects, attrs \in {FooAttrs, ShadowAttrs} : obj_setattr(i, attrs)
  \/ \E i \in DOMAIN objects, params \in ParamSettings : call_set_params(i, params)
  \/ \E i \in DOMAIN objects : _set_tags(i, [n \in {"A"} |-> Integer(99)])
  \/ \E i \in DOMAIN objects : _set_config(i, [n \in {"print_changed_only"} |-> False])

ParamSpec == ParamInit /\ [][ParamNext]_vars

\* isinstance(value, BaseObject)
isinstance_BaseObject(objs, value) == value \in {Obj(j) : j \in DOMAIN objs}

\* obj.is_composite()
is_composite(i) ==
  LET params == get_params(objects, objects[i], FALSE) IN
  /\ Op(i, "is_composite", objects[i].dict,
        IF \E p \in DOMAIN params : isinstance_BaseObject(objects, params[p])
        THEN True ELSE False)
  /\ UNCHANGED ncalls

\* obj._components() with base_class=None
_components(i) ==
  LET self == objects[i]
      param_names == _get_param_names(self.cls)
      names == self_attrs(self) \ param_names
  IN
  /\ Op(i, "_components", self.dict,
        [x \in {n \in names : isinstance_BaseObject(objects, self.dict[n])} |-> self.dict[x]])
  /\ UNCHANGED ncalls

\* the attrs fields of Child with eq=True, which the generated __eq__
\* compares: the parameters and the two init=False fields of BaseObject
eq_fields(cls) == _get_param_names(cls) \cup DOMAIN FieldFactories

RECURSIVE __eq__(_, _, _)
\* the attrs-generated __eq__ on two instances: same class, and the tuples
\* of the eq fields compare equal, a field value that is an instance being
\* compared with its own __eq__
__eq__(objs, self, other) ==
  /\ other.cls = self.cls
  /\ \A f \in eq_fields(self.cls) :
       IF isinstance_BaseObject(objs, self.dict[f]) /\ isinstance_BaseObject(objs, other.dict[f])
       THEN __eq__(objs, objs[self.dict[f].v], objs[other.dict[f].v])
       ELSE self.dict[f] = other.dict[f]

\* objects[i] == objects[j]
call_eq(i, j) ==
  /\ Op(i, "__eq__", objects[i].dict,
        [other |-> j,
         result |-> IF __eq__(objects, objects[i], objects[j]) THEN True ELSE False])
  /\ UNCHANGED ncalls

\* the calls of ParamNext together with the calls that only read an instance
LifecycleNext ==
  \/ ParamNext
  \/ \E i \in DOMAIN objects : call_get_params(i, TRUE)
  \/ \E i \in DOMAIN objects : _get_tags(i)
  \/ \E i \in DOMAIN objects : _get_tag(i, "A", None, TRUE)
  \/ \E i \in DOMAIN objects : is_composite(i)
  \/ \E i \in DOMAIN objects : _components(i)
  \/ \E i \in DOMAIN objects, j \in DOMAIN objects : call_eq(i, j)

LifecycleSpec == ParamInit /\ [][LifecycleNext]_vars

\* ------------------------------------------------------------ properties
\* what get_config() would return to thread t now
GetConfigOf(t) == _get_threadlocal_config(t)

ValidKwarg(kwargs, k) == is_valid_param_value(_CONFIG_REGISTRY[k], kwargs[k])

\* this step is a call op of thread t (every call counts in ncalls and
\* records itself in last)
Did(op, t) == ncalls' = ncalls + 1 /\ last'.op = op /\ last'.thread = t

\* this step is some call of thread t
StepOf(t) == ncalls' = ncalls + 1 /\ last'.thread = t

\* C1: a thread that leaves a config_context scope, normally or by an
\* exception of the body, has on all four keys the configuration that
\* get_config() returned just before the scope was entered: the scope saves
\* exactly that mapping on entry, no call of any thread alters the saved
\* mapping while the scope is open, and the exit makes it the thread's
\* mapping again; an exception of the body still propagates.
C1_ScopeExitRestoresEntryConfig ==
  [][\A t \in Threads :
       /\ Did("config_context_enter", t) =>
            InnermostFrame(frames'[t]).old_config = GetConfigOf(t)
       /\ \A i \in 1..Len(frames[t]) :
            i <= Len(frames'[t]) => frames'[t][i].old_config = frames[t][i].old_config
       /\ \A raising \in BOOLEAN :
            (Did("config_context_exit", t) /\ config_context_exit(t, raising)) =>
              /\ GetConfigOf(t)' = InnermostFrame(frames[t]).old_config
              /\ last'.raised = raising]_vars

\* a thread whose configuration is not the default has just left its
\* outermost scope by an exception
C1_Witness ==
  /\ last.op = "config_context_exit"
  /\ last.raised
  /\ frames[last.thread] = <<>>
  /\ thread_local[last.thread] # _GLOBAL_CONFIG_DEFAULT

C5_SharedUntouchedByThreadLocalCalls ==
  [][\A t \in Threads :
       /\ \A kw \in Kwargs :
            (Did("set_config", t) /\ set_config(t, kw, TRUE))
              => global_config' = global_config
       /\ \A kw \in Kwargs :
            (Did("config_context_enter", t) /\ config_context_enter(t, kw, TRUE))
              => global_config' = global_config
       /\ (Did("config_context_exit", t) /\ InnermostFrame(frames[t]).local_threadsafe)
            => global_config' = global_config]_vars

\* C6: set_config(..., local_threadsafe=False) changes only the supplied
\* keys: every key passed as None keeps its value in the thread's mapping
\* and keeps its value in the shared mapping.
C6_UnsuppliedKeysKeptInBothMappings ==
  [][\A t \in Threads : \A kw \in Kwargs :
       (Did("set_config", t) /\ set_config(t, kw, FALSE))
         => \A k \in Keys \ Supplied(kw) :
              /\ GetConfigOf(t)'[k] = GetConfigOf(t)[k]
              /\ global_config'[k] = global_config[k]]_vars

\* C7: after set_config the thread's get_config() has the supplied value for
\* every key supplied with a valid value and the previous value for every
\* key passed as None; the call does not raise.
C7_SetConfigThenGetConfig ==
  [][\A t \in Threads : \A kw \in Kwargs :
       (Did("set_config", t) /\ \E lts \in BOOLEAN : set_config(t, kw, lts))
         => /\ ~last'.raised
            /\ \A k \in Keys :
                 /\ (kw[k] # None /\ ValidKwarg(kw, k)) => GetConfigOf(t)'[k] = kw[k]
                 /\ kw[k] = None => GetConfigOf(t)'[k] = GetConfigOf(t)[k]]_vars

\* a set_config call has returned without warning and the thread holds
\* non-default values for two keys
C7_Witness ==
  /\ last.op = "set_config"
  /\ ~last.raised
  /\ last.warnings = 0
  /\ thread_local[last.thread].dataframe_backend = Str("pandas")
  /\ thread_local[last.thread].print_changed_only = False

\* C8: set_config with one keyword whose value is invalid raises nothing,
\* warns exactly once and leaves the thread's get_config() as it was on
\* every key: the current value is kept, not the registered default.
C8_InvalidValueKeepsCurrent ==
  [][\A t \in Threads : \A kw \in SingleKwargs :
       ( /\ Did("set_config", t)
         /\ \E k \in Keys : Supplied(kw) = {k} /\ ~ValidKwarg(kw, k)
         /\ \E lts \in BOOLEAN : set_config(t, kw, lts) )
         => /\ ~last'.raised
            /\ last'.warnings = 1
            /\ GetConfigOf(t)' = GetConfigOf(t)]_vars

\* a set_config call has warned once (of the calls modelled only those with
\* a single invalid keyword do) and the thread holds only non-default values
C8_Witness ==
  /\ last.op = "set_config"
  /\ last.warnings = 1
  /\ \A k \in Keys : thread_local[last.thread][k] # _GLOBAL_CONFIG_DEFAULT[k]

\* a mapping has exactly the registered keys and only valid values
WellFormed(config) ==
  /\ DOMAIN config = Keys
  /\ \A k \in Keys : is_valid_param_value(_CONFIG_REGISTRY[k], config[k])

\* C9: in every reachable state the default mapping, the shared mapping and
\* every thread's mapping have exactly the four registered keys and hold
\* only values that pass their parameter's validation.
C9_MappingsWellFormed ==
  /\ WellFormed(_GLOBAL_CONFIG_DEFAULT)
  /\ WellFormed(global_config)
  /\ \A t \in Threads : hasattr(t) => WellFormed(thread_local[t])

\* two invalid candidates have just been passed while every thread has a
\* mapping
C9_Witness ==
  /\ last.warnings = 2
  /\ \A t \in Threads : hasattr(t)

\* C10: after reset_config the thread's get_config() is the default
\* configuration and so is the shared mapping, which is the effect of
\* set_config with the four defaults and local_threadsafe=False.
C10_ResetConfigRestoresDefaults ==
  [][\A t \in Threads :
       Did("reset_config", t)
         => /\ GetConfigOf(t)' = _GLOBAL_CONFIG_DEFAULT
            /\ global_config' = _GLOBAL_CONFIG_DEFAULT
            /\ thread_local'[t] = set_config_local(GetConfigOf(t), _GLOBAL_CONFIG_DEFAULT)
            /\ last'.warnings = 0]_vars

\* a thread has just reset the configuration while another thread still
\* holds a non-default mapping
C10_Witness ==
  /\ last.op = "reset_config"
  /\ thread_local[last.thread] = _GLOBAL_CONFIG_DEFAULT
  /\ \E u \in Threads \ {last.thread} :
       hasattr(u) /\ thread_local[u] # _GLOBAL_CONFIG_DEFAULT

\* C11: a set_config or config_context call that passes a keyword outside
\* the four registered keys (and local_threadsafe) raises TypeError, and
\* leaves the calling thread's configuration, its thread-local mapping, the
\* shared mapping and the open scopes of every thread as they were.
C11_UnexpectedKeywordRejected ==
  [][\A t \in Threads :
       StepOf(t) =>
         \A name \in UnexpectedNames, kw \in UnexpectedKwargs, lts \in BOOLEAN :
           (set_config_keyword(t, name, kw, lts) \/ config_context_keyword(t, name, kw, lts)) =>
             /\ last'.raised
             /\ GetConfigOf(t)' = GetConfigOf(t)
             /\ UNCHANGED <<global_config, thread_local, frames>>]_vars

\* a thread whose configuration is no longer the default has just had a
\* call rejected for its keyword
C11_Witness ==
  /\ last.raised
  /\ last.op \in {"set_config", "config_context"}
  /\ hasattr(last.thread)
  /\ GetConfigOf(last.thread) # _GLOBAL_CONFIG_DEFAULT

\* C12: a thread's first access clones the shared mapping as it stands.
\* When a thread completes set_config(k=v) with a valid v and
\* local_threadsafe=False, every thread that has not accessed the
\* configuration yet would read v for k; a first get_config() gives the
\* reader exactly the shared mapping of that moment and writes nothing
\* shared; set_config(k=v, local_threadsafe=True) leaves what those threads
\* would read unchanged.
C12_FirstAccessClonesShared ==
  [][\A t \in Threads :
       /\ (Did("get_config", t) /\ ~hasattr(t)) =>
            /\ thread_local'[t] = global_config
            /\ global_config' = global_config
       /\ Did("set_config", t) =>
            \A kw \in SingleKwargs : \A k \in Supplied(kw) :
              /\ (ValidKwarg(kw, k) /\ set_config(t, kw, FALSE)) =>
                   \A u \in Threads \ {t} : ~hasattr(u) => GetConfigOf(u)'[k] = kw[k]
              /\ set_config(t, kw, TRUE) =>
                   \A u \in Threads \ {t} : ~hasattr(u) => GetConfigOf(u)' = GetConfigOf(u)]_vars

\* a thread has just made its first access, a get_config(), and holds a
\* non-default value that another thread published
C12_Witness ==
  /\ last.op = "get_config"
  /\ ncalls = 2
  /\ \E u \in Threads \ {last.thread} : hasattr(u)
  /\ thread_local[last.thread] # _GLOBAL_CONFIG_DEFAULT

\* C13: get_default_config() returns the four registry defaults in every
\* reachable state, whatever set_config, reset_config or config_context
\* calls any thread made, and the module's defaults dict never changes; an
\* assignment into a mapping that get_default_config() or get_config()
\* returned changes the caller's mapping only: the defaults, the shared
\* mapping and every thread's mapping stay as they were.
C13_ReturnedMappingsAreCopies ==
  [][/\ default_store' = _GLOBAL_CONFIG_DEFAULT
     /\ \A t \in Threads :
          /\ Did("get_default_config", t) =>
               /\ DOMAIN held'.value = Keys
               /\ held'.value = _GLOBAL_CONFIG_DEFAULT
          /\ Did("setitem", t) =>
               /\ held'.value # held.value
               /\ UNCHANGED <<default_store, global_config, thread_local, frames>>]_vars

\* after some call changed the shared configuration, a caller has assigned
\* into a mapping it got from get_default_config()
C13_Witness ==
  /\ last.op = "setitem"
  /\ global_config # _GLOBAL_CONFIG_DEFAULT
  /\ held.value # default_store
  /\ held.value.dataframe_backend = default_store.dataframe_backend
  /\ held.value # global_config

\* the classes of cls's chain, BaseObject included, whose own body declares
\* the tag k
DeclaresTag(cls, k) ==
  {i \in 1..(Len(getmro(cls)) - 1) :
     /\ class_attrs[getmro(cls)[i]]["_tags"].declared
     /\ k \in DOMAIN class_attrs[getmro(cls)[i]]["_tags"].items}

\* C14: _get_class_tags() of a class has exactly the tags that the class or
\* one of its ancestors declares, each with the value given by the
\* most-derived class declaring it: a collision is won by the most-derived
\* class and a tag declared by an ancestor only is retained; for the
\* fixtures, Child gets A from its own body and B, C from Parent.
C14_ClassTagsMergeAlongChain ==
  ret.op = "_get_class_tags" =>
    LET cls == ret.target
        mro == getmro(cls)
    IN /\ \A k \in TagNames \cup DOMAIN ParentTags :
            IF DeclaresTag(cls, k) = {}
            THEN k \notin DOMAIN ret.value
            ELSE /\ k \in DOMAIN ret.value
                 /\ \E i \in DeclaresTag(cls, k) :
                      /\ \A j \in DeclaresTag(cls, k) : i <= j
                      /\ ret.value[k] = class_attrs[mro[i]]["_tags"].items[k]
       /\ DOMAIN ret.value \subseteq TagNames \cup DOMAIN ParentTags
       /\ (class_attrs = FixtureClasses /\ cls = "Child") =>
            /\ ret.value["A"] = Integer(42)
            /\ ret.value["B"] = Integer(2)
            /\ ret.value["C"] = Integer(1234)

\* _get_class_tags() was called on a Child that overrides a tag of Parent
\* and inherits another one that only Parent declares
C14_Witness ==
  /\ ret.op = "_get_class_tags"
  /\ ret.target = "Child"
  /\ DeclaresTag("Child", "A") = {1, 2}
  /\ DeclaresTag("Child", "B") = {2}
  /\ class_attrs["Child"]["_tags"].items["A"] # class_attrs["Parent"]["_tags"].items["A"]

\* this step is a state-changing call op on instance i
OpOn(op, i) == ncalls' = ncalls + 1 /\ ret'.op = op /\ ret'.target = i

\* C15: after _set_tags(k=v) on an instance, _get_tags() of that instance
\* has v for every k written and, for every key that has no dynamic
\* override, the class-merged value, and no other keys; the class-level
\* declarations, which are all that _get_class_tags() reads, and _get_tags()
\* of every other instance are unchanged.
C15_SetTagsOverridesOneInstance ==
  [][\A i \in ObjIds : OpOn("_set_tags", i) =>
       \A tag_dict \in TagDicts : _set_tags(i, tag_dict) =>
         LET tags == _get_flags(objects'[i], "_tags")
             class_tags == _get_class_flags(objects[i].cls, "_tags")
             overridden == DOMAIN objects'[i].dict["_tags_dynamic"]
         IN /\ \A k \in DOMAIN tag_dict : k \in DOMAIN tags /\ tags[k] = tag_dict[k]
            /\ DOMAIN tags = DOMAIN class_tags \cup overridden
            /\ \A k \in DOMAIN class_tags \ overridden : tags[k] = class_tags[k]
            /\ class_attrs' = class_attrs
            /\ \A j \in ObjIds \ {i} :
                 _get_flags(objects'[j], "_tags") = _get_flags(objects[j], "_tags")]_vars

\* _get_tags() of an instance has returned an overridden class tag next to
\* inherited ones, while another instance of the same class has no override
C15_Witness ==
  /\ ret.op = "_get_tags"
  /\ ret.value["A"] = Integer(99)
  /\ ret.value["B"] = Integer(2)
  /\ \E j \in ObjIds \ {ret.target} :
       /\ objects[j].cls = objects[ret.target].cls
       /\ _get_flags(objects[j], "_tags") = _get_class_flags(objects[j].cls, "_tags")

\* C16: _get_tag(name, default, raise_error) returns the effective value,
\* class-merged tags with the dynamic overrides on top, when name is
\* present; when name is absent it raises the ValueError that names the
\* flag if raise_error is true, and returns the default passed (None when
\* none is passed) otherwise; no instance and no class is changed by it.
C16_GetTagValueDefaultOrError ==
  [][\A i \in ObjIds : (ret'.op = "_get_tag" /\ ret'.target = i) =>
       LET tags == _get_flags(objects[i], "_tags") IN
       \A tag_name \in LookedUp, tag_value_default \in LookupDefaults, raise_error \in BOOLEAN :
         _get_tag(i, tag_name, tag_value_default, raise_error) =>
           /\ UNCHANGED <<objects, class_attrs>>
           /\ tag_name \in DOMAIN tags => (~ret'.raised /\ ret'.value = tags[tag_name])
           /\ (tag_name \notin DOMAIN tags /\ raise_error) =>
                /\ ret'.raised
                /\ ret'.value.exc = "ValueError"
                /\ ret'.value.flag_name = tag_name
           /\ (tag_name \notin DOMAIN tags /\ ~raise_error) =>
                (~ret'.raised /\ ret'.value = tag_value_default)]_vars

\* _get_tag has raised for a name that an instance with dynamic overrides
\* does not have
C16_Witness ==
  /\ ret.op = "_get_tag"
  /\ ret.raised
  /\ DOMAIN objects[ret.target].dict["_tags_dynamic"] = {"A"}

C19_OverridesPersist ==
  [][\A i \in DOMAIN objects : \A flag_attr_name \in FlagAttrs :
       LET overrides == objects[i].dict[dynamic_name(flag_attr_name)]
           setter == IF flag_attr_name = "_tags" THEN "_set_tags" ELSE "_set_config"
           flags == _get_flags(objects'[i], flag_attr_name)
       IN (~OpOn("reset", i) /\ ~OpOn(setter, i)) =>
            \A k \in DOMAIN overrides : k \in DOMAIN flags /\ flags[k] = overrides[k]]_vars

\* C20: get_params(deep=False) has exactly the declared parameter names,
\* each with the instance's value; get_params(deep=True) has each of those
\* entries unchanged and, for every parameter p whose value has get_params,
\* the entry p__q for every key q of that value's deep get_params, with the
\* same value, and no other entries: nesting flattens to any depth and a
\* value without get_params adds no keys.
C20_DeepParamsFlattenComponents ==
  [][\A i \in DOMAIN objects : (ret'.op = "get_params" /\ ret'.target = i) =>
       LET self == objects[i]
           names == DOMAIN ParamDefaults
           components == {p \in names : self.dict[p].ty = "obj"}
           nested(p) == get_params(objects, objects[self.dict[p].v], TRUE)
           params == ret'.value
       IN /\ call_get_params(i, FALSE) =>
               (DOMAIN params = names /\ \A p \in names : params[p] = self.dict[p])
          /\ call_get_params(i, TRUE) =>
               /\ \A p \in names : p \in DOMAIN params /\ params[p] = self.dict[p]
               /\ \A p \in components : \A q \in DOMAIN nested(p) :
                    /\ (p \o "__" \o q) \in DOMAIN params
                    /\ params[p \o "__" \o q] = nested(p)[q]
               /\ DOMAIN params =
                    names \cup UNION {{p \o "__" \o q : q \in DOMAIN nested(p)} : p \in components}
          /\ objects' = objects]_vars

\* a deep get_params has returned an entry two levels down, next to a
\* parameter whose plain value adds no keys
C20_Witness ==
  /\ ret.op = "get_params"
  /\ ~ret.raised
  /\ "c__c__a" \in DOMAIN ret.value
  /\ ret.value["c__c__a"] = Str("x")
  /\ ret.value["a"] = Str("x")
  /\ \A k \in DOMAIN ret.value : k \notin {"a__a", "a__b", "a__c"}

\* the keys of the keyword arguments params
KeysOf(params) == {params[n][1] : n \in DOMAIN params}

\* the value passed under key in params
ValueOf(params, key) == params[CHOOSE n \in DOMAIN params : params[n][1] = key][2]

\* C21: set_params on a composite with keys <p>__<x>, alone or mixed with
\* top-level keys, p holding a component that has the parameter x: the call
\* returns the composite; the component's x and the composite's deep entry
\* <p>__<x> are the new value; p is bound to the same component as before;
\* top-level keys are set on the composite; and every parameter of the
\* composite and of the component that the update does not name keeps its
\* value.
C21_NestedKeySetsComponentInPlace ==
  [][\A i \in DOMAIN objects : OpOn("set_params", i) =>
       \A params \in ParamSettings :
         LET nested == {k \in KeysOf(params) : contains(k, "__")}
             top == KeysOf(params) \ nested
             before == get_params(objects, objects[i], TRUE)
         IN (/\ call_set_params(i, params)
             /\ nested # {}
             /\ KeysOf(params) \subseteq DOMAIN before) =>
              LET after == get_params(objects', objects'[i], TRUE) IN
              /\ ret' = Return("set_params", i, Obj(i))
              /\ \A k \in nested :
                   LET p == partition(k, "__")[1]
                       x == partition(k, "__")[3]
                   IN /\ objects'[i].dict[p] = objects[i].dict[p]
                      /\ objects'[objects[i].dict[p].v].dict[x] = ValueOf(params, k)
              /\ \A k \in DOMAIN after :
                   after[k] = IF k \in KeysOf(params) THEN ValueOf(params, k) ELSE before[k]
              /\ DOMAIN after = DOMAIN before]_vars

\* set_params(a="x", c__a="y") has returned the composite: its own a and the
\* a of the component it still holds are the new values
C21_Witness ==
  /\ ret = Return("set_params", 1, Obj(1))
  /\ objects[1].dict["c"] = Obj(2)
  /\ objects[1].dict["a"] = Str("x")
  /\ objects[2].dict["a"] = Str("y")
  /\ objects[2].dict["b"] = Integer(7)
  /\ get_params(objects, objects[1], TRUE)["c__a"] = Str("y")

\* C22: a set_params call in which the top-level name of some key is not a
\* parameter of the instance raises ValueError and leaves get_params of the
\* instance, shallow and deep, as it was before the call.
C22_UnknownNameLeavesParams ==
  [][\A i \in DOMAIN objects : OpOn("set_params", i) =>
       \A params \in ParamSettings :
         (/\ call_set_params(i, params)
          /\ \E k \in KeysOf(params) :
               partition(k, "__")[1] \notin _get_param_names(objects[i].cls)) =>
           /\ ret'.raised
           /\ ret'.value = [exc |-> "ValueError"]
           /\ get_params(objects', objects'[i], TRUE) = get_params(objects, objects[i], TRUE)]_vars

\* C23: set_params() with an empty update returns the instance and leaves
\* every instance as it was: parameters, other attributes, dynamic tag and
\* config overrides.
C23_EmptyUpdateChangesNothing ==
  [][\A i \in DOMAIN objects :
       (OpOn("set_params", i) /\ call_set_params(i, <<>>)) =>
         /\ ret' = Return("set_params", i, Obj(i))
         /\ objects' = objects
         /\ class_attrs' = class_attrs]_vars

\* set_params() has returned on an instance that has attributes set by foo()
\* and a dynamic tag override
C23_Witness ==
  /\ ret = Return("set_params", ret.target, Obj(ret.target))
  /\ ret.target \in DOMAIN objects
  /\ "d" \in DOMAIN objects[ret.target].dict
  /\ objects[ret.target].dict["_tags_dynamic"] = [n \in {"A"} |-> Integer(99)]

\* the deep parameters of instances i and j are equal by value: the same
\* keys, and under each key either two components or two equal plain values
\* (the parameters of the components are among the deep entries)
SameParamsByValue(i, j) ==
  LET pi == get_params(objects, objects[i], TRUE)
      pj == get_params(objects, objects[j], TRUE)
  IN /\ DOMAIN pi = DOMAIN pj
     /\ \A k \in DOMAIN pi :
          IF has_get_params(pi[k]) \/ has_get_params(pj[k])
          THEN has_get_params(pi[k]) /\ has_get_params(pj[k])
          ELSE pi[k] = pj[k]

\* C24: a == b is true exactly when a and b have the same class and their
\* deep parameters are equal by value; attributes that are no parameters and
\* dynamic tag or config overrides have no influence on the result.
C24_EqualsIsParamEquality ==
  [][\A i \in DOMAIN objects : (ret'.op = "__eq__" /\ ret'.target = i) =>
       LET j == ret'.value.other IN
       (ret'.value.result = True)
         <=> (objects[i].cls = objects[j].cls /\ SameParamsByValue(i, j))]_vars

\* C25: after a._clone_tags(b, tag_names) the tags of a have b's value under
\* every requested name that b has (every tag of b when tag_names is None,
\* the one name when it is a str, the listed names when it is a list) and
\* their previous value under every other name; names b does not have add
\* nothing and raise nothing; the class tags of a and of b and the tags of b
\* are as before.
C25_CloneTagsCopiesRequested ==
  [][\A i \in DOMAIN objects : OpOn("_clone_tags", i) =>
       LET j == ret'.value.obj
           tag_names == ret'.value.tag_names
           mine == _get_flags(objects[i], "_tags")
           theirs == _get_flags(objects[j], "_tags")
           requested == IF tag_names = None THEN DOMAIN theirs
                        ELSE IF tag_names.ty = "str" THEN {tag_names.v}
                        ELSE {tag_names.v[n] : n \in DOMAIN tag_names.v}
           cloned == requested \cap DOMAIN theirs
           after == _get_flags(objects'[i], "_tags")
       IN /\ ~ret'.raised
          /\ DOMAIN after = DOMAIN mine \cup cloned
          /\ \A k \in DOMAIN after : after[k] = IF k \in cloned THEN theirs[k] ELSE mine[k]
          /\ class_attrs' = class_attrs
          /\ _get_flags(objects'[j], "_tags") = theirs
          /\ \A o \in DOMAIN objects \ {i} : objects'[o] = objects[o]]_vars

\* the Parent instance has cloned ["E", "foo"] from the Child instance, which
\* has the dynamic tag E and no tag foo: it has E now and its own A
C25_Witness ==
  /\ ret.op = "_clone_tags"
  /\ ret.target = 1
  /\ ret.value = [obj |-> 2, tag_names |-> [ty |-> "list", v |-> <<"E", "foo">>]]
  /\ "E" \in DOMAIN objects[2].dict["_tags_dynamic"]
  /\ _get_flags(objects[1], "_tags")["E"] = _get_flags(objects[2], "_tags")["E"]
  /\ "foo" \notin DOMAIN _get_flags(objects[1], "_tags")
  /\ _get_flags(objects[1], "_tags")["A"] = Str("1")

\* C26: when the threads have only read the configuration and run
\* config_context scopes (local_threadsafe left at False), then whenever no
\* scope is open, the shared configuration and the configuration
\* get_config() gives to any thread are the default configuration.
C26_ScopesLeaveDefaults ==
  (\A t \in Threads : frames[t] = <<>>) =>
    /\ global_config = _GLOBAL_CONFIG_DEFAULT
    /\ \A t \in Threads : GetConfigOf(t) = _GLOBAL_CONFIG_DEFAULT

\* C27: thread A is inside a config_context scope and has the value the
\* scope saved under key k (the scope did not name k); thread B has just
\* completed set_config(k=v) with local_threadsafe=False; then A's scope
\* exit leaves the shared configuration's value for k, which is v, as it is.
C27_ExitKeepsOthersSetting ==
  [][\A A \in Threads :
       (/\ Did("config_context_exit", A)
        /\ last.op = "set_config"
        /\ last.thread # A
        /\ ret.op = "set_config") =>
         \A k \in Supplied(ret.value) :
           (thread_local[A][k] = InnermostFrame(frames[A]).old_config[k]) =>
             global_config'[k] = global_config[k]]_vars

Plain(dict) == [attr \in {n \in DOMAIN dict : ~contains(n, "__")} |-> dict[attr]]

\* this step is reset() on instance i or a successful set_params call on i
\* with a non-empty update
Resets(i) ==
  \/ OpOn("reset", i)
  \/ /\ OpOn("set_params", i)
     /\ ~ret'.raised
     /\ \E params \in ParamSettings \ {<<>>} : call_set_params(i, params)

Shadowing(self) ==
  [attr \in DOMAIN self.dict \cap dir_type(self.cls) |-> self.dict[attr]]

\* the attributes of an instance __dict__ whose name has no "__" and is not
\* the name of a class attribute or method
Own(self) ==
  [attr \in DOMAIN Plain(self.dict) \ dir_type(self.cls) |-> self.dict[attr]]

C30_RejectedNestedKeyChangesNothing ==
  [][\A i \in DOMAIN objects : OpOn("set_params", i) =>
       \A params \in ParamSettings :
         (/\ call_set_params(i, params)
          /\ \A k \in KeysOf(params) :
               partition(k, "__")[1] \in _get_param_names(objects[i].cls)
          /\ \E k \in KeysOf(params) :
               LET p == partition(k, "__")[1]
                   z == partition(k, "__")[3]
               IN /\ contains(k, "__")
                  /\ isinstance_BaseObject(objects, objects[i].dict[p])
                  /\ z \notin _get_param_names(objects[objects[i].dict[p].v].cls)) =>
           /\ ret'.raised
           /\ ret'.value = [exc |-> "ValueError"]
           /\ objects' = objects]_vars

====
